---- MODULE Spec2Model ----
(***************************************************************************)
(* Model of util/config.go: the configuration record, its reflective       *)
(* accessors (setConfigValue / getConfigValue), the three loading stages   *)
(* of ConfigInit (file, environment, defaults), validateConfig, and the    *)
(* dialect / connection-string methods.                                    *)
(*                                                                         *)
(* A Go string is a sequence of one-character strings, so that prefix,     *)
(* substring, split and formatting are computed character by character.    *)
(* A Go value is a record [kind, type, val]: kind is the reflect.Kind,     *)
(* type the Go type name, val the payload (a character sequence, an        *)
(* integer, a boolean, a function from field name to value for a struct,   *)
(* a function from key to value for a map).                                *)
(***************************************************************************)
EXTENDS Integers, Sequences, FiniteSets, Bags, TLC

VARIABLES
    Config,   \* *ConfigType, the package-level configuration record
    env,      \* the process environment: variable name -> value ("" when unset or empty)
    pc,       \* where the program is: ConfigInit's stages, or "ready" for on-demand calls
    last,     \* the last operation: its name, arguments and results
    before,   \* the operation before the last one
    prev,     \* Config as it was when the last operation started
    steps     \* number of on-demand calls made so far

vars == <<Config, env, pc, last, before, prev, steps>>

(***************************************************************************)
(* Bounds of the model.                                                    *)
(***************************************************************************)
\* at most this many environment variables are set to a non-empty value
MaxEnvSet == 2
\* at most this many on-demand calls (accessors, validateConfig, db methods) in a run
MaxCalls == 2

(***************************************************************************)
(* strings                                                                 *)
(***************************************************************************)
\* strings.HasPrefix
HasPrefix(s, p) == Len(s) >= Len(p) /\ SubSeq(s, 1, Len(p)) = p

\* strings.HasSuffix
HasSuffix(s, p) == Len(s) >= Len(p) /\ SubSeq(s, Len(s) - Len(p) + 1, Len(s)) = p

\* strings.Contains
Contains(s, sub) == \E i \in 0..(Len(s) - Len(sub)) : SubSeq(s, i + 1, i + Len(sub)) = sub

\* strings.Split(s, sep) for a one-character separator
RECURSIVE Split(_, _)
Split(s, sep) ==
    IF \A i \in 1..Len(s) : s[i] # sep
    THEN <<s>>
    ELSE LET i == CHOOSE k \in 1..Len(s) : s[k] = sep /\ \A j \in 1..(k - 1) : s[j] # sep
         IN  <<SubSeq(s, 1, i - 1)>> \o Split(SubSeq(s, i + 1, Len(s)), sep)

UpperLetters == <<"A","B","C","D","E","F","G","H","I","J","K","L","M","N","O","P","Q","R","S","T","U","V","W","X","Y","Z">>
LowerLetters == <<"a","b","c","d","e","f","g","h","i","j","k","l","m","n","o","p","q","r","s","t","u","v","w","x","y","z">>
Digits == <<"0","1","2","3","4","5","6","7","8","9">>

IsDigit(c) == \E i \in 1..Len(Digits) : Digits[i] = c
DigitVal(c) == (CHOOSE i \in 1..Len(Digits) : Digits[i] = c) - 1

\* strings.ToLower (ASCII)
ToLower(s) ==
    [i \in 1..Len(s) |->
        IF \E k \in 1..Len(UpperLetters) : UpperLetters[k] = s[i]
        THEN LowerLetters[CHOOSE k \in 1..Len(UpperLetters) : UpperLetters[k] = s[i]]
        ELSE s[i]]

RECURSIVE digitsValue(_)
digitsValue(s) ==
    IF s = <<>> THEN 0 ELSE 10 * digitsValue(SubSeq(s, 1, Len(s) - 1)) + DigitVal(s[Len(s)])

\* strconv.Atoi: an optional sign, then one or more decimal digits
Atoi(s) ==
    LET signed == Len(s) > 0 /\ s[1] \in {"+", "-"}
        body   == IF signed THEN Tail(s) ELSE s
    IN  IF body = <<>> \/ \E i \in 1..Len(body) : ~IsDigit(body[i])
        THEN [err |-> TRUE, val |-> 0]
        ELSE [err |-> FALSE,
              val |-> IF signed /\ s[1] = "-" THEN 0 - digitsValue(body) ELSE digitsValue(body)]

RECURSIVE natDigits(_)
natDigits(n) == IF n < 10 THEN <<Digits[n + 1]>> ELSE natDigits(n \div 10) \o <<Digits[(n % 10) + 1]>>

\* the decimal form fmt prints for an int
Itoa(n) == IF n < 0 THEN <<"-">> \o natDigits(0 - n) ELSE natDigits(n)

(***************************************************************************)
(* Go values                                                               *)
(***************************************************************************)
StringValue(s) == [kind |-> "string", type |-> "string", val |-> s]
DbDriverValue(s) == [kind |-> "string", type |-> "DbDriver", val |-> s]
GitClientIdValue(s) == [kind |-> "string", type |-> "GitClientId", val |-> s]
IntValue(n) == [kind |-> "int", type |-> "int", val |-> n]
BoolValue(b) == [kind |-> "bool", type |-> "bool", val |-> b]
StructValue(t, fields) == [kind |-> "struct", type |-> t, val |-> fields]
MapValue(t, m) == [kind |-> "map", type |-> t, val |-> m]
\* the zero reflect.Value, what FieldByName returns for a name that is no field
InvalidValue == [kind |-> "invalid", type |-> "", val |-> <<>>]

DbDriverMySQL == <<"m","y","s","q","l">>
DbDriverBolt == <<"b","o","l","t">>
DbDriverPostgres == <<"p","o","s","t","g","r","e","s">>
GoGitClientId == <<"g","o","_","g","i","t">>
CmdGitClientId == <<"c","m","d","_","g","i","t">>

\* the empty map[string]string
NoOptions == [k \in {} |-> <<>>]

\* fmt.Sprintf("%v", v) for the scalar kinds
FormatV(v) ==
    CASE v.kind = "string" -> v.val
      [] v.kind = "int"    -> Itoa(v.val)
      [] v.kind = "bool"   -> IF v.val THEN <<"t","r","u","e">> ELSE <<"f","a","l","s","e">>

\* the zero value of DbConfig
ZeroDbConfig ==
    StructValue("DbConfig",
        (<<"D","i","a","l","e","c","t">>  :> DbDriverValue(<<>>)) @@
        (<<"H","o","s","t","n","a","m","e">> :> StringValue(<<>>)) @@
        (<<"U","s","e","r","n","a","m","e">> :> StringValue(<<>>)) @@
        (<<"P","a","s","s","w","o","r","d">> :> StringValue(<<>>)) @@
        (<<"D","b","N","a","m","e">>   :> StringValue(<<>>)) @@
        (<<"O","p","t","i","o","n","s">>  :> MapValue("map[string]string", NoOptions)))

\* the zero value of ldapMappings
ZeroLdapMappings ==
    StructValue("ldapMappings",
        (<<"D","N">>   :> StringValue(<<>>)) @@
        (<<"M","a","i","l">> :> StringValue(<<>>)) @@
        (<<"U","I","D">>  :> StringValue(<<>>)) @@
        (<<"C","N">>   :> StringValue(<<>>)))

\* the zero value of ConfigType
ZeroConfig ==
    StructValue("ConfigType",
        (<<"M","y","S","Q","L">>    :> ZeroDbConfig) @@
        (<<"B","o","l","t","D","b">>   :> ZeroDbConfig) @@
        (<<"P","o","s","t","g","r","e","s">> :> ZeroDbConfig) @@
        (<<"D","i","a","l","e","c","t">>  :> DbDriverValue(<<>>)) @@
        (<<"P","o","r","t">>          :> StringValue(<<>>)) @@
        (<<"I","n","t","e","r","f","a","c","e">>     :> StringValue(<<>>)) @@
        (<<"T","m","p","P","a","t","h">>       :> StringValue(<<>>)) @@
        (<<"S","s","h","C","o","n","f","i","g","P","a","t","h">> :> StringValue(<<>>)) @@
        (<<"G","i","t","C","l","i","e","n","t","I","d">>   :> GitClientIdValue(<<>>)) @@
        (<<"W","e","b","H","o","s","t">>       :> StringValue(<<>>)) @@
        (<<"C","o","o","k","i","e","H","a","s","h">>          :> StringValue(<<>>)) @@
        (<<"C","o","o","k","i","e","E","n","c","r","y","p","t","i","o","n">>    :> StringValue(<<>>)) @@
        (<<"A","c","c","e","s","s","K","e","y","E","n","c","r","y","p","t","i","o","n">> :> StringValue(<<>>)) @@
        (<<"E","m","a","i","l","A","l","e","r","t">>    :> BoolValue(FALSE)) @@
        (<<"E","m","a","i","l","S","e","n","d","e","r">>   :> StringValue(<<>>)) @@
        (<<"E","m","a","i","l","H","o","s","t">>     :> StringValue(<<>>)) @@
        (<<"E","m","a","i","l","P","o","r","t">>     :> StringValue(<<>>)) @@
        (<<"E","m","a","i","l","U","s","e","r","n","a","m","e">> :> StringValue(<<>>)) @@
        (<<"E","m","a","i","l","P","a","s","s","w","o","r","d">> :> StringValue(<<>>)) @@
        (<<"E","m","a","i","l","S","e","c","u","r","e">>   :> BoolValue(FALSE)) @@
        (<<"L","d","a","p","E","n","a","b","l","e">>       :> BoolValue(FALSE)) @@
        (<<"L","d","a","p","B","i","n","d","D","N">>       :> StringValue(<<>>)) @@
        (<<"L","d","a","p","B","i","n","d","P","a","s","s","w","o","r","d">> :> StringValue(<<>>)) @@
        (<<"L","d","a","p","S","e","r","v","e","r">>       :> StringValue(<<>>)) @@
        (<<"L","d","a","p","S","e","a","r","c","h","D","N">>     :> StringValue(<<>>)) @@
        (<<"L","d","a","p","S","e","a","r","c","h","F","i","l","t","e","r">> :> StringValue(<<>>)) @@
        (<<"L","d","a","p","M","a","p","p","i","n","g","s">>     :> ZeroLdapMappings) @@
        (<<"L","d","a","p","N","e","e","d","T","L","S">>      :> BoolValue(FALSE)) @@
        (<<"T","e","l","e","g","r","a","m","A","l","e","r","t">> :> BoolValue(FALSE)) @@
        (<<"T","e","l","e","g","r","a","m","C","h","a","t">>  :> StringValue(<<>>)) @@
        (<<"T","e","l","e","g","r","a","m","T","o","k","e","n">> :> StringValue(<<>>)) @@
        (<<"S","l","a","c","k","A","l","e","r","t">>    :> BoolValue(FALSE)) @@
        (<<"S","l","a","c","k","U","r","l">>      :> StringValue(<<>>)) @@
        (<<"O","i","d","c","P","r","o","v","i","d","e","r","s">> :> MapValue("map[string]oidcProvider", NoOptions)) @@
        (<<"M","a","x","P","a","r","a","l","l","e","l","T","a","s","k","s">> :> IntValue(0)) @@
        (<<"D","e","m","o","M","o","d","e">>                 :> BoolValue(FALSE)) @@
        (<<"P","a","s","s","w","o","r","d","L","o","g","i","n","D","i","s","a","b","l","e">>     :> BoolValue(FALSE)) @@
        (<<"N","o","n","A","d","m","i","n","C","a","n","C","r","e","a","t","e","P","r","o","j","e","c","t">> :> BoolValue(FALSE)))

(***************************************************************************)
(* reflection: setConfigValue and getConfigValue                           *)
(***************************************************************************)
\* reflect.Value.FieldByName on a struct value: the field, or the zero Value
FieldByName(v, name) == IF name \in DOMAIN v.val THEN v.val[name] ELSE InvalidValue

\* the loop of setConfigValue: FieldByName along the path; reflect panics when
\* FieldByName is called on a value that is not a struct
RECURSIVE walk(_, _)
walk(attribute, segs) ==
    IF segs = <<>> THEN [panic |-> FALSE, attr |-> attribute]
    ELSE IF attribute.kind # "struct" THEN [panic |-> TRUE, attr |-> InvalidValue]
    ELSE walk(FieldByName(attribute, Head(segs)), Tail(segs))

\* the record with the value at the (existing) path replaced
RECURSIVE storeAt(_, _, _)
storeAt(v, segs, new) ==
    IF segs = <<>> THEN new
    ELSE [v EXCEPT !.val = [v.val EXCEPT ![Head(segs)] = storeAt(v.val[Head(segs)], Tail(segs), new)]]

castStringToInt(value) ==
    LET r == Atoi(value)
    IN  [panic |-> r.err, val |-> IntValue(r.val)]

castStringToBool(value) ==
    BoolValue(value = <<"1">> \/ ToLower(value) = <<"t","r","u","e">>)

\* the switch of setConfigValue on the kind of the addressed field
coerce(attribute, value) ==
    CASE attribute.kind = "int" /\ value.kind # "int" -> castStringToInt(FormatV(value))
      [] attribute.kind = "bool" /\ value.kind # "bool" ->
            [panic |-> FALSE, val |-> castStringToBool(FormatV(value))]
      [] OTHER -> [panic |-> FALSE, val |-> value]

\* as AssignableTo, but a value is converted to the field's type when both are
\* string types (attribute.Set(reflect.ValueOf(value).Convert(attribute.Type())))
AssignableTo_converting(valueType, fieldType) ==
    \/ valueType = fieldType
    \/ {valueType, fieldType} \subseteq {"string", "DbDriver", "GitClientId"}

\* reflect.Value.Set accepts a value whose type is assignable to the field's type:
\* for two defined types that is type identity
AssignableTo(valueType, fieldType) == valueType = fieldType

setConfigValue(cfg, path, value) ==
    LET segs == Split(path, ".")
        w    == walk(cfg, segs)
    IN  IF w.panic THEN [panic |-> TRUE, cfg |-> cfg]
        ELSE IF w.attr.kind = "invalid" THEN [panic |-> FALSE, cfg |-> cfg]
        ELSE LET c == coerce(w.attr, value)
             IN  IF c.panic \/ ~AssignableTo(c.val.type, w.attr.type)
                 THEN [panic |-> TRUE, cfg |-> cfg]
                 ELSE [panic |-> FALSE, cfg |-> storeAt(cfg, segs, c.val)]

\* the loop of getConfigValue, with its check after every FieldByName
RECURSIVE getWalk(_, _)
getWalk(attribute, segs) ==
    LET next      == FieldByName(attribute, Head(segs))
        lastDepth == Len(segs) = 1
    IN  IF (~lastDepth /\ next.kind # "struct") \/ (lastDepth /\ next.kind = "invalid")
        THEN [panic |-> TRUE, attr |-> InvalidValue]
        ELSE IF lastDepth THEN [panic |-> FALSE, attr |-> next]
        ELSE getWalk(next, Tail(segs))

getConfigValue(cfg, path) ==
    LET w == getWalk(cfg, Split(path, "."))
    IN  IF w.panic THEN [panic |-> TRUE, str |-> <<>>]
        ELSE [panic |-> FALSE, str |-> FormatV(w.attr)]

(***************************************************************************)
(* the tables                                                              *)
(***************************************************************************)
\* default config values: attribute path -> default
configDefaults == <<
    <<<<"P","o","r","t">>,        StringValue(<<":","3","0","0","0">>)>>,
    <<<<"T","m","p","P","a","t","h">>,     StringValue(<<"/","t","m","p","/","s","e","m","a","p","h","o","r","e">>)>>,
    <<<<"G","i","t","C","l","i","e","n","t","I","d">>, GitClientIdValue(GoGitClientId)>> >>

\* mapping internal config to env-vars: attribute path -> variable name
ConfigEnvironmentalVars == <<
    <<<<"D","i","a","l","e","c","t">>,             "SEMAPHORE_DB_DIALECT">>,
    <<<<"M","y","S","Q","L",".","H","o","s","t","n","a","m","e">>,      "SEMAPHORE_DB_HOST">>,
    <<<<"M","y","S","Q","L",".","U","s","e","r","n","a","m","e">>,      "SEMAPHORE_DB_USER">>,
    <<<<"M","y","S","Q","L",".","P","a","s","s","w","o","r","d">>,      "SEMAPHORE_DB_PASS">>,
    <<<<"M","y","S","Q","L",".","D","b","N","a","m","e">>,        "SEMAPHORE_DB">>,
    <<<<"P","o","s","t","g","r","e","s",".","H","o","s","t","n","a","m","e">>,   "SEMAPHORE_DB_HOST">>,
    <<<<"P","o","s","t","g","r","e","s",".","U","s","e","r","n","a","m","e">>,   "SEMAPHORE_DB_USER">>,
    <<<<"P","o","s","t","g","r","e","s",".","P","a","s","s","w","o","r","d">>,   "SEMAPHORE_DB_PASS">>,
    <<<<"P","o","s","t","g","r","e","s",".","D","b","N","a","m","e">>,     "SEMAPHORE_DB">>,
    <<<<"B","o","l","t","D","b",".","H","o","s","t","n","a","m","e">>,     "SEMAPHORE_DB_HOST">>,
    <<<<"P","o","r","t">>,                "SEMAPHORE_PORT">>,
    <<<<"I","n","t","e","r","f","a","c","e">>,           "SEMAPHORE_INTERFACE">>,
    <<<<"T","m","p","P","a","t","h">>,             "SEMAPHORE_TMP_PATH">>,
    <<<<"S","s","h","C","o","n","f","i","g","P","a","t","h">>,       "SEMAPHORE_TMP_PATH">>,
    <<<<"G","i","t","C","l","i","e","n","t","I","d">>,         "SEMAPHORE_GIT_CLIENT">>,
    <<<<"W","e","b","H","o","s","t">>,             "SEMAPHORE_WEB_ROOT">>,
    <<<<"C","o","o","k","i","e","H","a","s","h">>,          "SEMAPHORE_COOKIE_HASH">>,
    <<<<"C","o","o","k","i","e","E","n","c","r","y","p","t","i","o","n">>,    "SEMAPHORE_COOKIE_ENCRYPTION">>,
    <<<<"A","c","c","e","s","s","K","e","y","E","n","c","r","y","p","t","i","o","n">>, "SEMAPHORE_ACCESS_KEY_ENCRYPTION">>,
    <<<<"E","m","a","i","l","A","l","e","r","t">>,          "SEMAPHORE_EMAIL_ALERT">>,
    <<<<"E","m","a","i","l","S","e","n","d","e","r">>,         "SEMAPHORE_EMAIL_SENDER">>,
    <<<<"E","m","a","i","l","H","o","s","t">>,           "SEMAPHORE_EMAIL_HOST">>,
    <<<<"E","m","a","i","l","P","o","r","t">>,           "SEMAPHORE_EMAIL_PORT">>,
    <<<<"E","m","a","i","l","U","s","e","r","n","a","m","e">>,       "SEMAPHORE_EMAIL_USER">>,
    <<<<"E","m","a","i","l","P","a","s","s","w","o","r","d">>,       "SEMAPHORE_EMAIL_PASSWORD">>,
    <<<<"E","m","a","i","l","S","e","c","u","r","e">>,         "SEMAPHORE_EMAIL_SECURE">>,
    <<<<"L","d","a","p","E","n","a","b","l","e">>,          "SEMAPHORE_LDAP_ACTIVATED">>,
    <<<<"L","d","a","p","B","i","n","d","D","N">>,          "SEMAPHORE_LDAP_DN_BIND">>,
    <<<<"L","d","a","p","B","i","n","d","P","a","s","s","w","o","r","d">>,    "SEMAPHORE_LDAP_PASSWORD">>,
    <<<<"L","d","a","p","S","e","r","v","e","r">>,          "SEMAPHORE_LDAP_HOST">>,
    <<<<"L","d","a","p","S","e","a","r","c","h","D","N">>,        "SEMAPHORE_LDAP_DN_SEARCH">>,
    <<<<"L","d","a","p","S","e","a","r","c","h","F","i","l","t","e","r">>,    "SEMAPHORE_LDAP_SEARCH_FILTER">>,
    <<<<"L","d","a","p","M","a","p","p","i","n","g","s",".","D","N">>,     "SEMAPHORE_LDAP_MAPPING_DN">>,
    <<<<"L","d","a","p","M","a","p","p","i","n","g","s",".","U","I","D">>,    "SEMAPHORE_LDAP_MAPPING_USERNAME">>,
    <<<<"L","d","a","p","M","a","p","p","i","n","g","s",".","C","N">>,     "SEMAPHORE_LDAP_MAPPING_FULLNAME">>,
    <<<<"L","d","a","p","M","a","p","p","i","n","g","s",".","M","a","i","l">>,   "SEMAPHORE_LDAP_MAPPING_EMAIL">>,
    <<<<"L","d","a","p","N","e","e","d","T","L","S">>,         "SEMAPHORE_LDAP_NEEDTLS">>,
    <<<<"T","e","l","e","g","r","a","m","A","l","e","r","t">>,       "SEMAPHORE_TELEGRAM_ALERT">>,
    <<<<"T","e","l","e","g","r","a","m","C","h","a","t">>,        "SEMAPHORE_TELEGRAM_CHAT">>,
    <<<<"T","e","l","e","g","r","a","m","T","o","k","e","n">>,       "SEMAPHORE_TELEGRAM_TOKEN">>,
    <<<<"S","l","a","c","k","A","l","e","r","t">>,          "SEMAPHORE_SLACK_ALERT">>,
    <<<<"S","l","a","c","k","U","r","l">>,            "SEMAPHORE_SLACK_URL">>,
    <<<<"M","a","x","P","a","r","a","l","l","e","l","T","a","s","k","s">>,    "SEMAPHORE_MAX_PARALLEL_TASKS">> >>

DialectRegex == <<"^","m","y","s","q","l","|","b","o","l","t","|","p","o","s","t","g","r","e","s","$">>
PortRegex == <<"^",":","(","[","0","-","9","]","{","1",",","5","}",")","$">>
GitClientIdRegex == <<"^","g","o","_","g","i","t","|","c","m","d","_","g","i","t","$">>
Base64Regex == <<"^","[","-","A","-","Z","a","-","z","0","-","9","+","=","\\","/","]","{","4","0",",","}","$">>
EmailPortRegex == <<"^","(","|","[","0","-","9","]","{","1",",","5","}",")","$">>
MaxParallelTasksRegex == <<"^","[","0","-","9","]","{","1",",","1","0","}","$">>

\* basic config validation using regex: attribute path -> pattern
configValidationRegex == <<
    <<<<"D","i","a","l","e","c","t">>,             DialectRegex>>,
    <<<<"P","o","r","t">>,                PortRegex>>,
    <<<<"G","i","t","C","l","i","e","n","t","I","d">>,         GitClientIdRegex>>,
    <<<<"C","o","o","k","i","e","H","a","s","h">>,          Base64Regex>>,
    <<<<"C","o","o","k","i","e","E","n","c","r","y","p","t","i","o","n">>,    Base64Regex>>,
    <<<<"A","c","c","e","s","s","K","e","y","E","n","c","r","y","p","t","i","o","n">>, Base64Regex>>,
    <<<<"E","m","a","i","l","P","o","r","t">>,           EmailPortRegex>>,
    <<<<"M","a","x","P","a","r","a","l","l","e","l","T","a","s","k","s">>,    MaxParallelTasksRegex>> >>

\* every variable name the program looks up
EnvVarNames ==
    {ConfigEnvironmentalVars[i][2] : i \in 1..Len(ConfigEnvironmentalVars)} \cup {"SEMAPHORE_DB_NAME"}

\* the sequences that visit every element of S once: the orders in which Go may
\* range over a map with these keys
RECURSIVE Orders(_)
Orders(S) == IF S = {} THEN {<<>>} ELSE UNION {{<<x>> \o o : o \in Orders(S \ {x})} : x \in S}

(***************************************************************************)
(* regexp.MatchString for the patterns of configValidationRegex            *)
(***************************************************************************)
AllDigits(s) == \A i \in 1..Len(s) : IsDigit(s[i])

\* the class [-A-Za-z0-9+=\/]
IsBase64Char(c) ==
    \/ c \in {"-", "+", "=", "/"}
    \/ IsDigit(c)
    \/ \E k \in 1..Len(UpperLetters) : UpperLetters[k] = c \/ LowerLetters[k] = c

\* An alternation binds weaker than the anchors: ^mysql|bolt|postgres$ is
\* (^mysql) or (bolt) or (postgres$).
MatchString(regex, value) ==
    CASE regex = DialectRegex ->
            HasPrefix(value, <<"m","y","s","q","l">>) \/ Contains(value, <<"b","o","l","t">>) \/ HasSuffix(value, <<"p","o","s","t","g","r","e","s">>)
      [] regex = PortRegex ->
            HasPrefix(value, <<":">>) /\ Len(value) - 1 \in 1..5 /\ AllDigits(Tail(value))
      [] regex = GitClientIdRegex ->
            HasPrefix(value, <<"g","o","_","g","i","t">>) \/ HasSuffix(value, <<"c","m","d","_","g","i","t">>)
      [] regex = Base64Regex ->
            Len(value) >= 40 /\ \A i \in 1..Len(value) : IsBase64Char(value[i])
      [] regex = EmailPortRegex ->
            value = <<>> \/ (Len(value) \in 1..5 /\ AllDigits(value))
      [] regex = MaxParallelTasksRegex ->
            Len(value) \in 1..10 /\ AllDigits(value)

(***************************************************************************)
(* the loading stages                                                      *)
(***************************************************************************)
\* one iteration of the loop of loadConfigEnvironment. os.LookupEnv's
\* "exists && len(envValue) > 0" is e[envVar] # "" here.
envEntry(cfg, entry, e) ==
    LET attribute == entry[1]
        envVar    == entry[2]
        dialect   == cfg.val[<<"D","i","a","l","e","c","t">>].val
    IN  IF Contains(attribute, <<"M","y","S","Q","L">>) /\ dialect # DbDriverMySQL
        THEN [panic |-> FALSE, cfg |-> cfg]
        ELSE IF Contains(attribute, <<"P","o","s","t","g","r","e","s">>) /\ dialect # DbDriverPostgres
        THEN [panic |-> FALSE, cfg |-> cfg]
        ELSE IF Contains(attribute, <<"B","o","l","d","D","b">>) /\ dialect # DbDriverBolt
        THEN [panic |-> FALSE, cfg |-> cfg]
        ELSE IF e[envVar] # <<>>
        THEN setConfigValue(cfg, attribute, StringValue(e[envVar]))
        ELSE [panic |-> FALSE, cfg |-> cfg]

\* An entry whose variable is unset or empty changes nothing whenever it is
\* visited (it is skipped, or its LookupEnv test fails), so only the entries whose
\* variable is set and the order among them decide what the loop does.
envActive(e) ==
    {i \in 1..Len(ConfigEnvironmentalVars) : e[ConfigEnvironmentalVars[i][2]] # <<>>}

\* the loop of loadConfigEnvironment visits entry i next; a panic ends the loop
\* with the record as it is then
envVisit(f, i, e) ==
    LET r == envEntry(f.cfg, ConfigEnvironmentalVars[i], e)
    IN  [cfg |-> r.cfg, todo |-> IF r.panic THEN {} ELSE f.todo \ {i}, panic |-> r.panic]

\* Go ranges over a map in an unspecified order: from the loops in progress
\* (record so far, entries still to visit), the ways they can end
RECURSIVE envReach(_, _)
envReach(frontier, e) ==
    LET unfinished == {f \in frontier : f.todo # {}}
    IN  IF unfinished = {} THEN frontier
        ELSE envReach((frontier \ unfinished)
                        \cup UNION {{envVisit(f, i, e) : i \in f.todo} : f \in unfinished}, e)

\* the ways loadConfigEnvironment can end, one for each outcome of a visiting order
loadConfigEnvironment(cfg, e) ==
    envReach({[cfg |-> cfg, todo |-> envActive(e), panic |-> FALSE]}, e)

\* as defaultEntry, without the test that the current value is empty
defaultEntry_unconditional(cfg, entry) ==
    setConfigValue(cfg, entry[1], entry[2])

\* one iteration of the loop of loadConfigDefaults
defaultEntry(cfg, entry) ==
    LET attribute    == entry[1]
        defaultValue == entry[2]
        cur          == getConfigValue(cfg, attribute)
    IN  IF cur.panic THEN [panic |-> TRUE, cfg |-> cfg]
        ELSE IF Len(cur.str) = 0 THEN setConfigValue(cfg, attribute, defaultValue)
        ELSE [panic |-> FALSE, cfg |-> cfg]

RECURSIVE defaultsLoop(_, _)
defaultsLoop(cfg, order) ==
    IF order = <<>> THEN [panic |-> FALSE, cfg |-> cfg]
    ELSE LET r == defaultEntry(cfg, configDefaults[Head(order)])
         IN  IF r.panic THEN r ELSE defaultsLoop(r.cfg, Tail(order))

(***************************************************************************)
(* validateConfig                                                          *)
(***************************************************************************)
\* as normalizePort, without the test for the separator
normalizePort_unconditional(cfg) ==
    storeAt(cfg, <<<<"P","o","r","t">>>>, StringValue(<<":">> \o cfg.val[<<"P","o","r","t">>].val))

\* the first statement of validateConfig
normalizePort(cfg) ==
    IF ~HasPrefix(cfg.val[<<"P","o","r","t">>].val, <<":">>)
    THEN storeAt(cfg, <<<<"P","o","r","t">>>>, StringValue(<<":">> \o cfg.val[<<"P","o","r","t">>].val))
    ELSE cfg

\* as validationMessage, without the branch for secret names
validationMessage_unredacted(attribute, value, validateRegex) ==
    <<"v","a","l","u","e"," ","o","f"," ","s","e","t","t","i","n","g"," ","'">> \o attribute \o <<"'"," ","i","s"," ","n","o","t"," ","v","a","l","i","d",":"," ","'">> \o value
        \o <<"'"," ","(","M","u","s","t"," ","m","a","t","c","h"," ","r","e","g","e","x",":"," ","'">> \o validateRegex \o <<"'",")">>

\* the message validateConfig hands to errorFunc for an entry that does not match
validationMessage(attribute, value, validateRegex) ==
    IF ~Contains(attribute, <<"a","s","s","w","o","r","d">>) /\ ~Contains(attribute, <<"e","c","r","e","t">>)
    THEN <<"v","a","l","u","e"," ","o","f"," ","s","e","t","t","i","n","g"," ","'">> \o attribute \o <<"'"," ","i","s"," ","n","o","t"," ","v","a","l","i","d",":"," ","'">> \o value
            \o <<"'"," ","(","M","u","s","t"," ","m","a","t","c","h"," ","r","e","g","e","x",":"," ","'">> \o validateRegex \o <<"'",")">>
    ELSE <<"v","a","l","u","e"," ","o","f"," ","s","e","t","t","i","n","g"," ","'">> \o attribute \o <<"'"," ","i","s"," ","n","o","t"," ","v","a","l","i","d","!"," ","(","M","u","s","t"," ","m","a","t","c","h"," ","r","e","g","e","x",":"," ","'">>
            \o validateRegex \o <<"'",")">>

\* the loop of validateConfig over the entries in the given order, with an errorFunc
\* that returns: the messages errorFunc is called with. The order of the calls is
\* the unspecified order of the map, so the calls are kept as a bag.
RECURSIVE validateLoop(_, _, _, _)
validateLoop(cfg, table, order, calls) ==
    IF order = <<>> THEN [panic |-> FALSE, calls |-> calls]
    ELSE LET attribute     == table[Head(order)][1]
             validateRegex == table[Head(order)][2]
             value         == getConfigValue(cfg, attribute)
         IN  IF value.panic THEN [panic |-> TRUE, calls |-> calls]
             ELSE IF ~MatchString(validateRegex, value.str)
             THEN validateLoop(cfg, table, Tail(order),
                    calls (+) SetToBag({validationMessage(attribute, value.str, validateRegex)}))
             ELSE validateLoop(cfg, table, Tail(order), calls)

\* validateConfig(errorFunc) over a validation table, for an errorFunc that returns
validateConfig(cfg, table) ==
    LET normal == normalizePort(cfg)
        r      == validateLoop(normal, table, [i \in 1..Len(table) |-> i], EmptyBag)
    IN  [cfg |-> normal, panic |-> r.panic, calls |-> r.calls]

(***************************************************************************)
(* inputs: configuration files and environments                            *)
(***************************************************************************)
\* cfg with the values at the given paths replaced: what decoding a JSON file
\* that sets these keys produces
RECURSIVE withFields(_, _)
withFields(cfg, updates) ==
    IF updates = <<>> THEN cfg
    ELSE withFields(storeAt(cfg, Split(Head(updates)[1], "."), Head(updates)[2]), Tail(updates))

\* 44 characters of base64, as GenerateSecrets writes for a 32-byte key
SampleKey == <<"A","A","A","A","A","A","A","A","A","A","A","A","A","A","A","A","A","A","A","A","A","A","A","A","A","A","A","A","A","A","A","A","A","A","A","A","A","A","A","A","A","A","A","=">>

FileDialects == {<<>>, DbDriverMySQL, DbDriverBolt, DbDriverPostgres}

\* a file that sets only "dialect"
sparseFile(d) == withFields(ZeroConfig, << <<<<"D","i","a","l","e","c","t">>, DbDriverValue(d)>> >>)

\* a file as `semaphore setup` writes it
fullFile(d) ==
    withFields(ZeroConfig, <<
        <<<<"D","i","a","l","e","c","t">>,             DbDriverValue(d)>>,
        <<<<"M","y","S","Q","L",".","H","o","s","t","n","a","m","e">>,      StringValue(<<"m">>)>>,
        <<<<"M","y","S","Q","L",".","U","s","e","r","n","a","m","e">>,      StringValue(<<"r","o","o","t">>)>>,
        <<<<"B","o","l","t","D","b",".","H","o","s","t","n","a","m","e">>,     StringValue(<<"/","b">>)>>,
        <<<<"P","o","s","t","g","r","e","s",".","H","o","s","t","n","a","m","e">>,   StringValue(<<"p">>)>>,
        <<<<"P","o","r","t">>,                StringValue(<<"3","0","0","0">>)>>,
        <<<<"T","m","p","P","a","t","h">>,             StringValue(<<"/","t","m","p","/","x">>)>>,
        <<<<"G","i","t","C","l","i","e","n","t","I","d">>,         GitClientIdValue(CmdGitClientId)>>,
        <<<<"C","o","o","k","i","e","H","a","s","h">>,          StringValue(SampleKey)>>,
        <<<<"C","o","o","k","i","e","E","n","c","r","y","p","t","i","o","n">>,    StringValue(SampleKey)>>,
        <<<<"A","c","c","e","s","s","K","e","y","E","n","c","r","y","p","t","i","o","n">>, StringValue(SampleKey)>>,
        <<<<"M","a","x","P","a","r","a","l","l","e","l","T","a","s","k","s">>,    IntValue(5)>> >>)

\* what loadConfigFile may find: no file, a file that is not JSON, a decoded file
Files ==
    {[kind |-> "missing", cfg |-> ZeroConfig], [kind |-> "malformed", cfg |-> ZeroConfig]}
    \cup {[kind |-> "json", cfg |-> sparseFile(d)] : d \in FileDialects}
    \cup {[kind |-> "json", cfg |-> fullFile(d)] : d \in FileDialects}

\* the variables an environment of the model may set, with the values it may give
EnvCandidates == {
    <<"SEMAPHORE_DB_DIALECT", <<"p","o","s","t","g","r","e","s">>>>,
    <<"SEMAPHORE_DB_DIALECT", <<"m","y","s","q","l">>>>,
    <<"SEMAPHORE_DB_HOST", <<"d","b","1">>>>,
    <<"SEMAPHORE_DB_USER", <<"a","l","i","c","e">>>>,
    <<"SEMAPHORE_DB_PASS", <<"p","@","s","s">>>>,
    <<"SEMAPHORE_DB", <<"s","e","m">>>>,
    <<"SEMAPHORE_DB_NAME", <<"s","e","m","2">>>>,
    <<"SEMAPHORE_PORT", <<"8","0","8","0">>>>,
    <<"SEMAPHORE_TMP_PATH", <<"/","t">>>>,
    <<"SEMAPHORE_GIT_CLIENT", <<"c","m","d","_","g","i","t">>>>,
    <<"SEMAPHORE_COOKIE_HASH", <<"c">>>>,
    <<"SEMAPHORE_EMAIL_ALERT", <<"T","r","u","e">>>>,
    <<"SEMAPHORE_EMAIL_ALERT", <<"y","e","s">>>>,
    <<"SEMAPHORE_EMAIL_PASSWORD", <<"p","w">>>>,
    <<"SEMAPHORE_LDAP_MAPPING_DN", <<"d","n">>>>,
    <<"SEMAPHORE_SLACK_URL", <<"u">>>>,
    <<"SEMAPHORE_MAX_PARALLEL_TASKS", <<"7">>>>,
    <<"SEMAPHORE_MAX_PARALLEL_TASKS", <<"x">>>> }

NoEnv == [v \in EnvVarNames |-> <<>>]

\* the environments that set at most k variables
RECURSIVE EnvsUpTo(_)
EnvsUpTo(k) ==
    IF k = 0 THEN {NoEnv}
    ELSE LET E == EnvsUpTo(k - 1)
         IN  E \cup {[e EXCEPT ![c[1]] = c[2]] : e \in E, c \in EnvCandidates}

Envs == EnvsUpTo(MaxEnvSet)

NoOp == [op |-> "none"]

(***************************************************************************)
(* ConfigInit: loadConfigFile, loadConfigEnvironment, loadConfigDefaults,  *)
(* validateConfig(exitOnConfigError)                                       *)
(***************************************************************************)
\* Config is nil until decodeConfig allocates it; nothing reads it before, and it
\* stands as the zero record here
Init ==
    /\ Config = ZeroConfig
    /\ env \in Envs
    /\ pc = "start"
    /\ last = NoOp
    /\ before = NoOp
    /\ prev = ZeroConfig
    /\ steps = 0

\* loadConfigFile: without a file the process exits, a file that does not decode
\* panics, otherwise the decoded record is Config
LoadConfigFile ==
    /\ pc = "start"
    /\ \E file \in Files :
        /\ Config' = file.cfg
        /\ pc' = CASE file.kind = "missing" -> "exited"
                   [] file.kind = "malformed" -> "panicked"
                   [] OTHER -> "file_loaded"
        /\ last' = [op |-> "loadConfigFile", file |-> file.kind]
    /\ before' = last
    /\ prev' = Config
    /\ UNCHANGED <<env, steps>>

LoadConfigEnvironment ==
    /\ pc = "file_loaded"
    /\ \E r \in loadConfigEnvironment(Config, env) :
            /\ Config' = r.cfg
            /\ pc' = IF r.panic THEN "panicked" ELSE "env_loaded"
            /\ last' = [op |-> "loadConfigEnvironment"]
    /\ before' = last
    /\ prev' = Config
    /\ UNCHANGED <<env, steps>>

LoadConfigDefaults ==
    /\ pc = "env_loaded"
    /\ \E order \in Orders(1..Len(configDefaults)) :
        LET r == defaultsLoop(Config, order)
        IN  /\ Config' = r.cfg
            /\ pc' = IF r.panic THEN "panicked" ELSE "defaults_loaded"
            /\ last' = [op |-> "loadConfigDefaults"]
    /\ before' = last
    /\ prev' = Config
    /\ UNCHANGED <<env, steps>>

\* validateConfig(exitOnConfigError): the callback prints its message and exits,
\* so the first entry visited that does not match ends the process; any of the
\* entries that do not match may be that one
ValidateOrExit ==
    /\ pc = "defaults_loaded"
    /\ LET r == validateConfig(Config, configValidationRegex)
       IN  /\ Config' = r.cfg
           /\ IF r.calls = EmptyBag
              THEN /\ pc' = "validated"
                   /\ last' = [op |-> "validateConfig", errors |-> EmptyBag]
              ELSE \E msg \in BagToSet(r.calls) :
                   /\ pc' = "exited"
                   /\ last' = [op |-> "validateConfig", errors |-> SetToBag({msg})]
    /\ before' = last
    /\ prev' = Config
    /\ UNCHANGED <<env, steps>>

Next == LoadConfigFile \/ LoadConfigEnvironment \/ LoadConfigDefaults \/ ValidateOrExit

Spec == Init /\ [][Next]_vars

(***************************************************************************)
(* properties of the loading stages                                        *)
(***************************************************************************)
\* the value at a path of the record
leafAt(cfg, path) == walk(cfg, Split(path, ".")).attr

\* the name of the storage sub-record an attribute path belongs to, if any
subRecordOf(path) ==
    LET first == Head(Split(path, "."))
    IN  IF first \in {<<"M","y","S","Q","L">>, <<"B","o","l","t","D","b">>, <<"P","o","s","t","g","r","e","s">>} THEN first ELSE <<>>

\* the sub-record of each dialect
dialectSubRecord == <<
    <<DbDriverMySQL, <<"M","y","S","Q","L">>>>, <<DbDriverBolt, <<"B","o","l","t","D","b">>>>, <<DbDriverPostgres, <<"P","o","s","t","g","r","e","s">>>> >>

\* the entry belongs to the sub-record of a dialect other than the selected one
belongsToOtherDialect(path, dialect) ==
    \E k \in 1..Len(dialectSubRecord) :
        subRecordOf(path) = dialectSubRecord[k][2] /\ dialect # dialectSubRecord[k][1]

\* C1: when Config.Dialect is not D as loadConfigEnvironment runs, the stage
\* leaves every field of D's sub-record (MySQL, BoltDb, Postgres) as it was,
\* whatever the environment holds.
C1_InactiveSubRecordsUntouched ==
    (last.op = "loadConfigEnvironment" /\ pc = "env_loaded") =>
        \A k \in 1..Len(dialectSubRecord) :
            prev.val[<<"D","i","a","l","e","c","t">>].val # dialectSubRecord[k][1] =>
                Config.val[dialectSubRecord[k][2]] = prev.val[dialectSubRecord[k][2]]

\* the string getConfigValue gives once a string from the environment has been
\* stored in a field of this kind
canonicalForm(kind, str) ==
    CASE kind = "int"  -> Itoa(Atoi(str).val)
      [] kind = "bool" -> IF str = <<"1">> \/ ToLower(str) = <<"t","r","u","e">> THEN <<"t","r","u","e">> ELSE <<"f","a","l","s","e">>
      [] OTHER         -> str

\* every integer-kind entry of the table has a numeric value in the environment
envCoerces(e) ==
    \A i \in envActive(e) :
        leafAt(ZeroConfig, ConfigEnvironmentalVars[i][1]).kind = "int" =>
            ~Atoi(e[ConfigEnvironmentalVars[i][2]]).err

\* C2: for every entry of ConfigEnvironmentalVars not skipped for its dialect
\* whose variable is set to a non-empty value, loadConfigEnvironment completes
\* and getConfigValue(path) is then the canonical string of that value, also over
\* a value from the file; this for every path, Dialect and GitClientId included.
C2_EnvironmentWins ==
    (last.op = "loadConfigEnvironment" /\ envCoerces(env)) =>
        /\ pc = "env_loaded"
        /\ \A i \in envActive(env) :
            LET path == ConfigEnvironmentalVars[i][1]
            IN  ~belongsToOtherDialect(path, prev.val[<<"D","i","a","l","e","c","t">>].val) =>
                    getConfigValue(Config, path).str =
                        canonicalForm(leafAt(prev, path).kind, env[ConfigEnvironmentalVars[i][2]])

\* the top-level fields the defaults table names
defaultedFields == {configDefaults[i][1] : i \in 1..Len(configDefaults)}

\* C3: for every entry of configDefaults: an empty value before loadConfigDefaults
\* is the declared default after it, a non-empty value is unchanged; no path
\* outside the table changes.
C3_DefaultsFillEmptyOnly ==
    (last.op = "loadConfigDefaults") =>
        /\ pc = "defaults_loaded"
        /\ \A i \in 1..Len(configDefaults) :
            LET path == configDefaults[i][1]
            IN  IF getConfigValue(prev, path).str = <<>>
                THEN /\ getConfigValue(Config, path).str = FormatV(configDefaults[i][2])
                     /\ leafAt(Config, path) = configDefaults[i][2]
                ELSE leafAt(Config, path) = leafAt(prev, path)
        /\ \A f \in (DOMAIN Config.val) \ defaultedFields : Config.val[f] = prev.val[f]

\* loadConfigDefaults has filled an empty Port and GitClientId and has kept a TmpPath
C3_Witness ==
    /\ last.op = "loadConfigDefaults"
    /\ prev.val[<<"P","o","r","t">>].val = <<>>
    /\ prev.val[<<"G","i","t","C","l","i","e","n","t","I","d">>].val = <<>>
    /\ prev.val[<<"T","m","p","P","a","t","h">>].val = <<"/","t">>
    /\ Config.val[<<"P","o","r","t">>].val = <<":","3","0","0","0">>
    /\ Config.val[<<"T","m","p","P","a","t","h">>].val = <<"/","t">>

ShortKey == <<"A","A","A","A","A","A","A","A","A","A","A","A","A","A","A","A","A","A","A","A","A","A","A","A","A","A","A","A","A","A","A","A","A","A","A","A","A","A","=">>
\* 44 characters, one of them outside the base64 class
BadKey == <<"A","A","A","A","A","A","A","A","A","A","A","A","A","A","A","A","A","A","A","A","A","!","A","A","A","A","A","A","A","A","A","A","A","A","A","A","A","A","A","A","A","A","A","=">>

ValidateDialects ==
    {<<>>, DbDriverMySQL, DbDriverBolt, DbDriverPostgres,
     <<"m","y","s","q","l","x">>, <<"x","b","o","l","t","x">>, <<"x","p","o","s","t","g","r","e","s">>, <<"x","m","y","s","q","l">>, <<"s","q","l","i","t","e">>}
ValidatePorts == {<<>>, <<"3","0","0","0">>, <<":","3","0","0","0">>, <<":">>, <<":","1","2","3","4","5","6">>, <<":","8","0","a">>, <<":",":","8","0">>, <<"8","0",":">>}
ValidateGitClients == {<<>>, GoGitClientId, CmdGitClientId, <<"g","o","_","g","i","t","x">>, <<"x","c","m","d","_","g","i","t">>, <<"x","g","o","_","g","i","t">>, <<"g","i","t">>}

\* the remaining validated fields: all valid, or each invalid in one of several ways
ValidateRest == {
    << <<<<"C","o","o","k","i","e","H","a","s","h">>, StringValue(SampleKey)>>, <<<<"E","m","a","i","l","P","o","r","t">>, StringValue(<<"2","5">>)>>,
       <<<<"M","a","x","P","a","r","a","l","l","e","l","T","a","s","k","s">>, IntValue(5)>> >>,
    << <<<<"C","o","o","k","i","e","H","a","s","h">>, StringValue(ShortKey)>>, <<<<"E","m","a","i","l","P","o","r","t">>, StringValue(<<"1","2","3","4","5","6">>)>>,
       <<<<"M","a","x","P","a","r","a","l","l","e","l","T","a","s","k","s">>, IntValue(0 - 1)>> >>,
    << <<<<"C","o","o","k","i","e","H","a","s","h">>, StringValue(BadKey)>>, <<<<"E","m","a","i","l","P","o","r","t">>, StringValue(<<"x">>)>>,
       <<<<"A","c","c","e","s","s","K","e","y","E","n","c","r","y","p","t","i","o","n">>, StringValue(<<>>)>> >> }

\* records validateConfig may be called on
ValidateConfigs ==
    {withFields(fullFile(d),
        << <<<<"P","o","r","t">>, StringValue(p)>>, <<<<"G","i","t","C","l","i","e","n","t","I","d">>, GitClientIdValue(g)>> >> \o rest) :
        d \in ValidateDialects, p \in ValidatePorts, g \in ValidateGitClients, rest \in ValidateRest}

InitValidate ==
    /\ Config \in ValidateConfigs
    /\ env = NoEnv
    /\ pc = "ready"
    /\ last = NoOp
    /\ before = NoOp
    /\ prev = Config
    /\ steps = 0

\* validateConfig(errorFunc) with an errorFunc that records its argument and returns
ValidateConfig ==
    /\ pc = "ready"
    /\ steps < MaxCalls
    /\ LET r == validateConfig(Config, configValidationRegex)
       IN  /\ Config' = r.cfg
           /\ pc' = IF r.panic THEN "panicked" ELSE "ready"
           /\ last' = [op |-> "validateConfig", errors |-> r.calls]
    /\ before' = last
    /\ prev' = Config
    /\ steps' = steps + 1
    /\ UNCHANGED env

NextValidate == ValidateConfig

SpecValidate == InitValidate /\ [][NextValidate]_vars

\* the pattern of a table entry matches the value as a whole string
wholeStringMatch(regex, value) ==
    CASE regex = DialectRegex -> value \in {<<"m","y","s","q","l">>, <<"b","o","l","t">>, <<"p","o","s","t","g","r","e","s">>}
      [] regex = GitClientIdRegex -> value \in {<<"g","o","_","g","i","t">>, <<"c","m","d","_","g","i","t">>}
      [] OTHER -> MatchString(regex, value)

\* how many times errorFunc was called with a message about the attribute
callsAbout(calls, attribute) ==
    LET about == {m \in BagToSet(calls) : HasPrefix(m, <<"v","a","l","u","e"," ","o","f"," ","s","e","t","t","i","n","g"," ","'">> \o attribute \o <<"'">>)}
    IN  BagCardinality([m \in about |-> calls[m]])

\* C4: with an errorFunc that returns, validateConfig calls it exactly once for
\* each entry of configValidationRegex whose value does not match its pattern as a
\* whole string and for no other entry; a Dialect that is not exactly mysql, bolt
\* or postgres is reported.
C4_EveryMismatchReportedOnce ==
    (last.op = "validateConfig") =>
        \A i \in 1..Len(configValidationRegex) :
            LET attribute == configValidationRegex[i][1]
                value     == getConfigValue(Config, attribute).str
            IN  callsAbout(last.errors, attribute) =
                    IF wholeStringMatch(configValidationRegex[i][2], value) THEN 0 ELSE 1

\* C6: validateConfig prepends ":" to a Port that does not begin with it, once,
\* leaves a Port that begins with ":" as it is, and changes nothing when run
\* again; afterwards Port begins with ":".
C6_PortNormalized ==
    (last.op = "validateConfig") =>
        /\ Config.val[<<"P","o","r","t">>].val =
              IF HasPrefix(prev.val[<<"P","o","r","t">>].val, <<":">>) THEN prev.val[<<"P","o","r","t">>].val
              ELSE <<":">> \o prev.val[<<"P","o","r","t">>].val
        /\ HasPrefix(Config.val[<<"P","o","r","t">>].val, <<":">>)
        /\ \A f \in (DOMAIN Config.val) \ {<<"P","o","r","t">>} : Config.val[f] = prev.val[f]
        /\ before.op = "validateConfig" => Config = prev

\* validateConfig has run twice on a record whose Port was "3000"
C6_Witness ==
    /\ last.op = "validateConfig"
    /\ before.op = "validateConfig"
    /\ Config.val[<<"P","o","r","t">>].val = <<":","3","0","0","0">>
    /\ steps = 2

(***************************************************************************)
(* validateConfig over other validation tables                             *)
(*                                                                         *)
(* configValidationRegex names no path that contains "assword" or "ecret", *)
(* so the redacting branch of validateConfig is taken only when the        *)
(* package variable holds another table. Here validateConfig runs over     *)
(* one-entry tables that pair any scalar path of the record with any of    *)
(* the patterns.                                                           *)
(***************************************************************************)
\* paths of the record that lead to a string, integer or boolean
ScalarPaths ==
    {ConfigEnvironmentalVars[i][1] : i \in 1..Len(ConfigEnvironmentalVars)}
    \cup {<<"B","o","l","t","D","b",".","U","s","e","r","n","a","m","e">>, <<"B","o","l","t","D","b",".","P","a","s","s","w","o","r","d">>, <<"B","o","l","t","D","b",".","D","b","N","a","m","e">>,
          <<"D","e","m","o","M","o","d","e">>, <<"P","a","s","s","w","o","r","d","L","o","g","i","n","D","i","s","a","b","l","e">>, <<"N","o","n","A","d","m","i","n","C","a","n","C","r","e","a","t","e","P","r","o","j","e","c","t">>}

Patterns == {configValidationRegex[i][2] : i \in 1..Len(configValidationRegex)}

MessageConfigs == {
    withFields(fullFile(DbDriverMySQL), <<
        <<<<"M","y","S","Q","L",".","P","a","s","s","w","o","r","d">>,    StringValue(<<"p","@","s","s">>)>>,
        <<<<"P","o","s","t","g","r","e","s",".","P","a","s","s","w","o","r","d">>, StringValue(<<"p","g","#","1">>)>>,
        <<<<"B","o","l","t","D","b",".","P","a","s","s","w","o","r","d">>,   StringValue(<<"b","0","l","t","p","w">>)>>,
        <<<<"E","m","a","i","l","P","a","s","s","w","o","r","d">>,     StringValue(<<"h","u","n","t","e","r","2">>)>>,
        <<<<"L","d","a","p","B","i","n","d","P","a","s","s","w","o","r","d">>,  StringValue(<<"S","3","c","r","3","t">>)>>,
        <<<<"E","m","a","i","l","H","o","s","t">>,         StringValue(<<"m","x",".","e","x","a","m","p","l","e">>)>> >>),
    withFields(sparseFile(<<>>), <<
        <<<<"M","y","S","Q","L",".","P","a","s","s","w","o","r","d">>,    StringValue(<<"x","9","!">>)>>,
        <<<<"P","o","s","t","g","r","e","s",".","P","a","s","s","w","o","r","d">>, StringValue(<<"Z","z","7","7">>)>>,
        <<<<"B","o","l","t","D","b",".","P","a","s","s","w","o","r","d">>,   StringValue(<<"0","0","0","0">>)>>,
        <<<<"E","m","a","i","l","P","a","s","s","w","o","r","d">>,     StringValue(<<"1","2","3","4","5">>)>>,
        <<<<"L","d","a","p","B","i","n","d","P","a","s","s","w","o","r","d">>,  StringValue(<<":","3","0","0","0">>)>>,
        <<<<"S","l","a","c","k","U","r","l">>,          StringValue(<<"h","t","t","p",":","/","/","s">>)>> >>) }

InitMessage ==
    /\ Config \in MessageConfigs
    /\ env = NoEnv
    /\ pc = "ready"
    /\ last = NoOp
    /\ before = NoOp
    /\ prev = Config
    /\ steps = 0

\* validateConfig(errorFunc) with an errorFunc that returns, the validation table
\* holding the one entry attribute -> validateRegex
ValidateEntry ==
    /\ pc = "ready"
    /\ steps = 0
    /\ \E attribute \in ScalarPaths, validateRegex \in Patterns :
        LET r == validateConfig(Config, << <<attribute, validateRegex>> >>)
        IN  /\ Config' = r.cfg
            /\ pc' = IF r.panic THEN "panicked" ELSE "ready"
            /\ last' = [op |-> "validateConfig", attribute |-> attribute,
                        validateRegex |-> validateRegex, errors |-> r.calls]
    /\ before' = last
    /\ prev' = Config
    /\ steps' = steps + 1
    /\ UNCHANGED env

NextMessage == ValidateEntry

SpecMessage == InitMessage /\ [][NextMessage]_vars

\* the path name contains "assword" or "ecret", compared without regard to case
namesSecret(attribute) ==
    Contains(ToLower(attribute), <<"a","s","s","w","o","r","d">>) \/ Contains(ToLower(attribute), <<"e","c","r","e","t">>)

\* C5: when a validated path fails its pattern, the message passed to errorFunc
\* leaves the failing value out if the path name contains "assword" or "ecret"
\* (case-insensitively), and includes the failing value otherwise.
C5_SecretValuesWithheld ==
    (last.op = "validateConfig") =>
        LET value == getConfigValue(Config, last.attribute).str
        IN  ~MatchString(last.validateRegex, value) =>
                /\ BagCardinality(last.errors) = 1
                /\ \A msg \in BagToSet(last.errors) :
                    /\ Contains(msg, last.attribute)
                    /\ Contains(msg, last.validateRegex)
                    /\ IF namesSecret(last.attribute)
                       THEN ~Contains(msg, value)
                       ELSE Contains(msg, <<"'">> \o value \o <<"'">>)

\* validateConfig has reported EmailPassword, whose value fails the port pattern
C5_Witness ==
    /\ last.op = "validateConfig"
    /\ last.attribute = <<"E","m","a","i","l","P","a","s","s","w","o","r","d">>
    /\ last.validateRegex = PortRegex
    /\ Config.val[<<"E","m","a","i","l","P","a","s","s","w","o","r","d">>].val = <<"h","u","n","t","e","r","2">>
    /\ BagCardinality(last.errors) = 1

(***************************************************************************)
(* DbConfig and the dialect: GetHostname .. GetConnectionString,           *)
(* GetDialect, GetDBConfig                                                 *)
(***************************************************************************)
\* os.Getenv(name) if it is not empty, else the field
envOrField(d, e, name, field) == IF e[name] # <<>> THEN e[name] ELSE d.val[field].val

GetDbName(d, e)   == envOrField(d, e, "SEMAPHORE_DB_NAME", <<"D","b","N","a","m","e">>)
GetUsername(d, e) == envOrField(d, e, "SEMAPHORE_DB_USER", <<"U","s","e","r","n","a","m","e">>)
GetPassword(d, e) == envOrField(d, e, "SEMAPHORE_DB_PASS", <<"P","a","s","s","w","o","r","d">>)
GetHostname(d, e) == envOrField(d, e, "SEMAPHORE_DB_HOST", <<"H","o","s","t","n","a","m","e">>)

IsPresent(d, e) == GetHostname(d, e) # <<>>

\* the loop of mapToQueryString over the keys in the given order
RECURSIVE queryLoop(_, _, _)
queryLoop(m, order, str) ==
    IF order = <<>> THEN str
    ELSE LET option == Head(order)
             sep    == IF str # <<>> THEN <<"&">> ELSE <<>>
         IN  queryLoop(m, Tail(order), str \o sep \o option \o <<"=">> \o m[option])

mapToQueryString(m, order) ==
    LET str == queryLoop(m, order, <<>>)
    IN  IF str # <<>> THEN <<"?">> \o str ELSE str

\* the ASCII punctuation url.QueryEscape writes as %XX, with the codes (all but
\* the backquote, which no input here holds)
EscapeCodes == <<
    <<"!", <<"%","2","1">>>>, <<"\"", <<"%","2","2">>>>, <<"#", <<"%","2","3">>>>, <<"$", <<"%","2","4">>>>, <<"%", <<"%","2","5">>>>,
    <<"&", <<"%","2","6">>>>, <<"'", <<"%","2","7">>>>, <<"(", <<"%","2","8">>>>, <<")", <<"%","2","9">>>>, <<"*", <<"%","2","A">>>>,
    <<"+", <<"%","2","B">>>>, <<",", <<"%","2","C">>>>, <<"/", <<"%","2","F">>>>, <<":", <<"%","3","A">>>>, <<";", <<"%","3","B">>>>,
    <<"<", <<"%","3","C">>>>, <<"=", <<"%","3","D">>>>, <<">", <<"%","3","E">>>>, <<"?", <<"%","3","F">>>>, <<"@", <<"%","4","0">>>>,
    <<"[", <<"%","5","B">>>>, <<"\\", <<"%","5","C">>>>, <<"]", <<"%","5","D">>>>, <<"^", <<"%","5","E">>>>,
    <<"{", <<"%","7","B">>>>, <<"|", <<"%","7","C">>>>, <<"}", <<"%","7","D">>>> >>

\* url.QueryEscape of one character: letters, digits, "-", "_", ".", "~" stay,
\* a space becomes "+", anything else its %XX code
escapeChar(c) ==
    IF c = " " THEN <<"+">>
    ELSE IF \E k \in 1..Len(EscapeCodes) : EscapeCodes[k][1] = c
    THEN EscapeCodes[CHOOSE k \in 1..Len(EscapeCodes) : EscapeCodes[k][1] = c][2]
    ELSE <<c>>

RECURSIVE QueryEscape(_)
QueryEscape(s) == IF s = <<>> THEN <<>> ELSE escapeChar(Head(s)) \o QueryEscape(Tail(s))

\* as mysqlOptions, with the built-in value kept for a key the user also sets
mysqlOptions_builtinsWin(userOptions) ==
    ((<<"p","a","r","s","e","T","i","m","e">> :> <<"t","r","u","e">>) @@ (<<"i","n","t","e","r","p","o","l","a","t","e","P","a","r","a","m","s">> :> <<"t","r","u","e">>)) @@ userOptions

\* the options of the mysql connection string: the built-in ones, then every user
\* option assigned over them
mysqlOptions(userOptions) ==
    userOptions @@ ((<<"p","a","r","s","e","T","i","m","e">> :> <<"t","r","u","e">>) @@ (<<"i","n","t","e","r","p","o","l","a","t","e","P","a","r","a","m","s">> :> <<"t","r","u","e">>))

\* GetConnectionString: the results it can return, one for each order in which
\* mapToQueryString may range over the options
GetConnectionString(d, includeDbName, e) ==
    LET dbName == GetDbName(d, e)
        dbUser == GetUsername(d, e)
        dbPass == GetPassword(d, e)
        dbHost == GetHostname(d, e)
        dialect == d.val[<<"D","i","a","l","e","c","t">>].val
    IN  IF dialect = DbDriverBolt
        THEN {[connectionString |-> dbHost, err |-> FALSE]}
        ELSE IF dialect = DbDriverMySQL
        THEN LET head == dbUser \o <<":">> \o dbPass \o <<"@","t","c","p","(">> \o dbHost \o <<")","/">>
                            \o (IF includeDbName THEN dbName ELSE <<>>)
                 options == mysqlOptions(d.val[<<"O","p","t","i","o","n","s">>].val)
             IN  {[connectionString |-> head \o mapToQueryString(options, order), err |-> FALSE] :
                    order \in Orders(DOMAIN options)}
        ELSE IF dialect = DbDriverPostgres
        THEN LET head == <<"p","o","s","t","g","r","e","s",":","/","/">> \o dbUser \o <<":">> \o QueryEscape(dbPass) \o <<"@">> \o dbHost
                            \o (IF includeDbName THEN <<"/">> \o dbName ELSE <<>>)
                 options == d.val[<<"O","p","t","i","o","n","s">>].val
             IN  {[connectionString |-> head \o mapToQueryString(options, order), err |-> FALSE] :
                    order \in Orders(DOMAIN options)}
        ELSE {[connectionString |-> <<>>, err |-> TRUE]}

\* as GetDialect, with Postgres looked at before BoltDb
GetDialect_postgresBeforeBolt(conf, e) ==
    IF conf.val[<<"D","i","a","l","e","c","t">>].val = <<>>
    THEN IF IsPresent(conf.val[<<"M","y","S","Q","L">>], e) THEN [dialect |-> DbDriverMySQL, err |-> FALSE]
         ELSE IF IsPresent(conf.val[<<"P","o","s","t","g","r","e","s">>], e) THEN [dialect |-> DbDriverPostgres, err |-> FALSE]
         ELSE IF IsPresent(conf.val[<<"B","o","l","t","D","b">>], e) THEN [dialect |-> DbDriverBolt, err |-> FALSE]
         ELSE [dialect |-> <<>>, err |-> TRUE]
    ELSE [dialect |-> conf.val[<<"D","i","a","l","e","c","t">>].val, err |-> FALSE]

GetDialect(conf, e) ==
    IF conf.val[<<"D","i","a","l","e","c","t">>].val = <<>>
    THEN IF IsPresent(conf.val[<<"M","y","S","Q","L">>], e) THEN [dialect |-> DbDriverMySQL, err |-> FALSE]
         ELSE IF IsPresent(conf.val[<<"B","o","l","t","D","b">>], e) THEN [dialect |-> DbDriverBolt, err |-> FALSE]
         ELSE IF IsPresent(conf.val[<<"P","o","s","t","g","r","e","s">>], e) THEN [dialect |-> DbDriverPostgres, err |-> FALSE]
         ELSE [dialect |-> <<>>, err |-> TRUE]
    ELSE [dialect |-> conf.val[<<"D","i","a","l","e","c","t">>].val, err |-> FALSE]

GetDBConfig(conf, e) ==
    LET r == GetDialect(conf, e)
        withDialect(dbConfig) == storeAt(dbConfig, <<<<"D","i","a","l","e","c","t">>>>, DbDriverValue(r.dialect))
    IN  IF r.err THEN [dbConfig |-> ZeroDbConfig, err |-> TRUE]
        ELSE IF r.dialect = DbDriverBolt
        THEN [dbConfig |-> withDialect(conf.val[<<"B","o","l","t","D","b">>]), err |-> FALSE]
        ELSE IF r.dialect = DbDriverPostgres
        THEN [dbConfig |-> withDialect(conf.val[<<"P","o","s","t","g","r","e","s">>]), err |-> FALSE]
        ELSE IF r.dialect = DbDriverMySQL
        THEN [dbConfig |-> withDialect(conf.val[<<"M","y","S","Q","L">>]), err |-> FALSE]
        ELSE [dbConfig |-> withDialect(ZeroDbConfig), err |-> TRUE]

(***************************************************************************)
(* on-demand calls of GetDialect, GetDBConfig, GetConnectionString         *)
(***************************************************************************)
DbHosts == {<<>>, <<"h">>}

\* records for dialect inference: selector and the three hostnames vary
InferConfigs ==
    {withFields(ZeroConfig, <<
        <<<<"D","i","a","l","e","c","t">>,           DbDriverValue(d)>>,
        <<<<"M","y","S","Q","L",".","H","o","s","t","n","a","m","e">>,    StringValue(m)>>,
        <<<<"B","o","l","t","D","b",".","H","o","s","t","n","a","m","e">>,   StringValue(IF b = <<>> THEN b ELSE <<"/","b">>)>>,
        <<<<"P","o","s","t","g","r","e","s",".","H","o","s","t","n","a","m","e">>, StringValue(IF p = <<>> THEN p ELSE <<"p","g">>)>> >>) :
        d \in {<<>>, DbDriverPostgres, <<"s","q","l","i","t","e">>}, m \in DbHosts, b \in DbHosts, p \in DbHosts}

UserOptions == {
    NoOptions,
    (<<"p","a","r","s","e","T","i","m","e">> :> <<"f","a","l","s","e">>),
    (<<"c","h","a","r","s","e","t">> :> <<"u","t","f","8">>),
    (<<"p","a","r","s","e","T","i","m","e">> :> <<"f","a","l","s","e">>) @@ (<<"c","h","a","r","s","e","t">> :> <<"u","t","f","8">>) }

\* records for connection strings: credentials set, user options vary
ConnectConfigs ==
    {withFields(ZeroConfig, <<
        <<<<"D","i","a","l","e","c","t">>,           DbDriverValue(d)>>,
        <<<<"M","y","S","Q","L",".","H","o","s","t","n","a","m","e">>,    StringValue(<<"h">>)>>,
        <<<<"M","y","S","Q","L",".","U","s","e","r","n","a","m","e">>,    StringValue(<<"u">>)>>,
        <<<<"M","y","S","Q","L",".","P","a","s","s","w","o","r","d">>,    StringValue(<<"p">>)>>,
        <<<<"M","y","S","Q","L",".","D","b","N","a","m","e">>,      StringValue(<<"d">>)>>,
        <<<<"M","y","S","Q","L",".","O","p","t","i","o","n","s">>,     MapValue("map[string]string", o)>>,
        <<<<"B","o","l","t","D","b",".","H","o","s","t","n","a","m","e">>,   StringValue(<<"/","b">>)>>,
        <<<<"P","o","s","t","g","r","e","s",".","H","o","s","t","n","a","m","e">>, StringValue(<<"p","g">>)>>,
        <<<<"P","o","s","t","g","r","e","s",".","U","s","e","r","n","a","m","e">>, StringValue(<<"b","o","b">>)>>,
        <<<<"P","o","s","t","g","r","e","s",".","P","a","s","s","w","o","r","d">>, StringValue(<<"a"," ","b","/","c">>)>>,
        <<<<"P","o","s","t","g","r","e","s",".","D","b","N","a","m","e">>,   StringValue(<<"d">>)>>,
        <<<<"P","o","s","t","g","r","e","s",".","O","p","t","i","o","n","s">>,  MapValue("map[string]string", o)>> >>) :
        d \in {DbDriverMySQL, DbDriverBolt, DbDriverPostgres}, o \in UserOptions}

DbEnvs == {
    NoEnv,
    [NoEnv EXCEPT !["SEMAPHORE_DB_HOST"] = <<"d","b","1">>],
    [NoEnv EXCEPT !["SEMAPHORE_DB_USER"] = <<"a","l","i","c","e">>, !["SEMAPHORE_DB_PASS"] = <<"p","@","s","s">>],
    [NoEnv EXCEPT !["SEMAPHORE_DB_NAME"] = <<"s","e","m","2">>, !["SEMAPHORE_DB"] = <<"s","e","m">>] }

InitDb ==
    /\ Config \in InferConfigs \cup ConnectConfigs
    /\ env \in DbEnvs
    /\ pc = "ready"
    /\ last = NoOp
    /\ before = NoOp
    /\ prev = Config
    /\ steps = 0

CallGetDialect ==
    /\ pc = "ready"
    /\ steps < MaxCalls
    /\ LET r == GetDialect(Config, env)
       IN  last' = [op |-> "GetDialect", dialect |-> r.dialect, err |-> r.err]
    /\ before' = last
    /\ prev' = Config
    /\ steps' = steps + 1
    /\ UNCHANGED <<Config, env, pc>>

CallGetDBConfig ==
    /\ pc = "ready"
    /\ steps < MaxCalls
    /\ LET r == GetDBConfig(Config, env)
       IN  last' = [op |-> "GetDBConfig", dbConfig |-> r.dbConfig, err |-> r.err]
    /\ before' = last
    /\ prev' = Config
    /\ steps' = steps + 1
    /\ UNCHANGED <<Config, env, pc>>

\* the DbConfig values GetConnectionString is called on: the one GetDBConfig has
\* just returned, or a sub-record of Config
receivers ==
    {Config.val[<<"M","y","S","Q","L">>], Config.val[<<"B","o","l","t","D","b">>], Config.val[<<"P","o","s","t","g","r","e","s">>]}
    \cup (IF last.op = "GetDBConfig" THEN {last.dbConfig} ELSE {})

CallGetConnectionString ==
    /\ pc = "ready"
    /\ steps < MaxCalls
    /\ \E d \in receivers, includeDbName \in BOOLEAN :
        \E r \in GetConnectionString(d, includeDbName, env) :
            last' = [op |-> "GetConnectionString", d |-> d, includeDbName |-> includeDbName,
                     connectionString |-> r.connectionString, err |-> r.err]
    /\ before' = last
    /\ prev' = Config
    /\ steps' = steps + 1
    /\ UNCHANGED <<Config, env, pc>>

NextDb == CallGetDialect \/ CallGetDBConfig \/ CallGetConnectionString

SpecDb == InitDb /\ [][NextDb]_vars

\* the hostname a sub-record presents: SEMAPHORE_DB_HOST if non-empty, else its field
effectiveHostname(sub) ==
    IF env["SEMAPHORE_DB_HOST"] # <<>> THEN env["SEMAPHORE_DB_HOST"]
    ELSE Config.val[sub].val[<<"H","o","s","t","n","a","m","e">>].val

\* the positions in the order mysql, bolt, postgres whose sub-record has a hostname
presentDialects == {k \in 1..Len(dialectSubRecord) : effectiveHostname(dialectSubRecord[k][2]) # <<>>}

\* C7: GetDialect returns a non-empty Config.Dialect unchanged, without error;
\* otherwise the first of mysql, bolt, postgres whose sub-record has a non-empty
\* effective hostname; with no selector and no hostname it returns an error, and
\* GetDBConfig returns that error with no sub-record selected.
C7_DialectSelection ==
    /\ (last.op = "GetDialect") =>
          IF Config.val[<<"D","i","a","l","e","c","t">>].val # <<>>
          THEN ~last.err /\ last.dialect = Config.val[<<"D","i","a","l","e","c","t">>].val
          ELSE IF presentDialects = {} THEN last.err
          ELSE /\ ~last.err
               /\ \E k \in presentDialects :
                    /\ \A j \in presentDialects : k <= j
                    /\ last.dialect = dialectSubRecord[k][1]
    /\ (last.op = "GetDBConfig" /\ Config.val[<<"D","i","a","l","e","c","t">>].val = <<>> /\ presentDialects = {}) =>
          last.err /\ last.dbConfig = ZeroDbConfig

\* GetDialect has inferred bolt: no selector, no MySQL hostname, BoltDb and
\* Postgres hostnames both set
C7_Witness ==
    /\ last.op = "GetDialect"
    /\ Config.val[<<"D","i","a","l","e","c","t">>].val = <<>>
    /\ presentDialects = {2, 3}
    /\ last.dialect = DbDriverBolt

\* the key=value pairs of a query string "?k=v&k=v", in their order
queryPairs(query) == IF query = <<>> THEN <<>> ELSE Split(Tail(query), "&")

\* C8: the mysql connection string is user:pass@tcp(host)/ and, when includeDbName,
\* the database name, followed by a query string that holds every key of the
\* built-in options {parseTime=true, interpolateParams=true} overridden by the
\* user's Options exactly once: the user's value for a key the user sets, the
\* built-in value otherwise.
C8_MySQLConnectionString ==
    (last.op = "GetConnectionString" /\ last.d.val[<<"D","i","a","l","e","c","t">>].val = DbDriverMySQL) =>
        LET user   == last.d.val[<<"O","p","t","i","o","n","s">>].val
            keys   == {<<"p","a","r","s","e","T","i","m","e">>, <<"i","n","t","e","r","p","o","l","a","t","e","P","a","r","a","m","s">>} \cup DOMAIN user
            wanted == {k \o <<"=">> \o (IF k \in DOMAIN user THEN user[k] ELSE <<"t","r","u","e">>) : k \in keys}
            head   == GetUsername(last.d, env) \o <<":">> \o GetPassword(last.d, env) \o <<"@","t","c","p","(">>
                        \o GetHostname(last.d, env) \o <<")","/">>
                        \o (IF last.includeDbName THEN GetDbName(last.d, env) ELSE <<>>)
            cs     == last.connectionString
            pairs  == queryPairs(SubSeq(cs, Len(head) + 1, Len(cs)))
        IN  /\ ~last.err
            /\ HasPrefix(cs, head \o <<"?">>)
            /\ {pairs[i] : i \in 1..Len(pairs)} = wanted
            /\ Len(pairs) = Cardinality(keys)

\* a mysql connection string with a user option that collides with a built-in key
\* and one that does not
C8_Witness ==
    /\ last.op = "GetConnectionString"
    /\ last.d.val[<<"D","i","a","l","e","c","t">>].val = DbDriverMySQL
    /\ last.includeDbName
    /\ DOMAIN last.d.val[<<"O","p","t","i","o","n","s">>].val = {<<"p","a","r","s","e","T","i","m","e">>, <<"c","h","a","r","s","e","t">>}
    /\ last.d.val[<<"O","p","t","i","o","n","s">>].val[<<"p","a","r","s","e","T","i","m","e">>] = <<"f","a","l","s","e">>
    /\ Contains(last.connectionString, <<"p","a","r","s","e","T","i","m","e","=","f","a","l","s","e">>)
    /\ HasPrefix(last.connectionString, <<"u",":","p","@","t","c","p","(","h",")","/","d","?">>)

(***************************************************************************)
(* on-demand calls of setConfigValue and getConfigValue                    *)
(***************************************************************************)
\* paths the accessors are called with: scalar leaves at both depths, a name
\* that is no field, a path through a field that is no struct
AccessPaths ==
    {<<"P","o","r","t">>, <<"D","i","a","l","e","c","t">>, <<"G","i","t","C","l","i","e","n","t","I","d">>, <<"M","a","x","P","a","r","a","l","l","e","l","T","a","s","k","s">>, <<"E","m","a","i","l","A","l","e","r","t">>,
     <<"M","y","S","Q","L",".","H","o","s","t","n","a","m","e">>, <<"L","d","a","p","M","a","p","p","i","n","g","s",".","D","N">>, <<"N","o","S","u","c","h","F","i","e","l","d">>, <<"P","o","r","t",".","N","u","m","b","e","r">>}

\* values setConfigValue is called with
AccessValues == <<
    StringValue(<<>>), StringValue(<<"m","y","s","q","l">>), StringValue(<<"7">>), StringValue(<<"-","3">>),
    StringValue(<<"T","r","u","e">>), StringValue(<<"f","a","l","s","e">>), StringValue(<<"x">>),
    IntValue(7), IntValue(0 - 3), BoolValue(TRUE),
    DbDriverValue(DbDriverMySQL), GitClientIdValue(CmdGitClientId) >>

InitAccess ==
    /\ Config = ZeroConfig
    /\ env = NoEnv
    /\ pc = "ready"
    /\ last = NoOp
    /\ before = NoOp
    /\ prev = Config
    /\ steps = 0

CallSetConfigValue ==
    /\ pc = "ready"
    /\ steps < MaxCalls
    /\ \E path \in AccessPaths, k \in 1..Len(AccessValues) :
        LET value == AccessValues[k]
            r     == setConfigValue(Config, path, value)
        IN  /\ Config' = r.cfg
            /\ pc' = IF r.panic THEN "panicked" ELSE "ready"
            /\ last' = [op |-> "setConfigValue", path |-> path, value |-> value,
                        panic |-> r.panic]
    /\ before' = last
    /\ prev' = Config
    /\ steps' = steps + 1
    /\ UNCHANGED env

CallGetConfigValue ==
    /\ pc = "ready"
    /\ steps < MaxCalls
    /\ \E path \in AccessPaths :
        LET r == getConfigValue(Config, path)
        IN  /\ pc' = IF r.panic THEN "panicked" ELSE "ready"
            /\ last' = [op |-> "getConfigValue", path |-> path, str |-> r.str,
                        panic |-> r.panic]
    /\ before' = last
    /\ prev' = Config
    /\ steps' = steps + 1
    /\ UNCHANGED <<Config, env>>

NextAccess == CallSetConfigValue \/ CallGetConfigValue

SpecAccess == InitAccess /\ [][NextAccess]_vars

\* the path leads to an integer, boolean or string leaf of the record
isScalarPath(path) == leafAt(ZeroConfig, path).kind \in {"int", "bool", "string"}

\* v is a value of the leaf's type, or the string form of one
isValueOrStringForm(leaf, v) ==
    \/ v.type = leaf.type
    \/ /\ v.type = "string"
       /\ CASE leaf.kind = "int"  -> ~Atoi(v.val).err /\ Itoa(Atoi(v.val).val) = v.val
            [] leaf.kind = "bool" -> v.val \in {<<"t","r","u","e">>, <<"f","a","l","s","e">>}
            [] OTHER              -> TRUE

\* what a string is as a value of the given kind
fromString(kind, str) ==
    CASE kind = "int"  -> IntValue(Atoi(str).val)
      [] kind = "bool" -> BoolValue(str = <<"t","r","u","e">>)
      [] OTHER         -> StringValue(str)

\* the payload of v as a value of the given kind
asKind(kind, v) == IF v.kind = kind THEN [kind |-> v.kind, val |-> v.val]
                   ELSE LET w == fromString(kind, v.val) IN [kind |-> w.kind, val |-> w.val]

\* C9: for every valid path to an integer, boolean or string leaf (Dialect and
\* GitClientId included) and every value v of the leaf's type or its string form,
\* setConfigValue(path, v) succeeds and a following getConfigValue(path) returns a
\* string that coerces back to v.
C9_SetGetRoundTrip ==
    /\ (last.op = "setConfigValue" /\ isScalarPath(last.path)
          /\ isValueOrStringForm(leafAt(ZeroConfig, last.path), last.value)) => ~last.panic
    /\ (last.op = "getConfigValue" /\ before.op = "setConfigValue" /\ ~before.panic
          /\ before.path = last.path /\ isScalarPath(last.path)
          /\ isValueOrStringForm(leafAt(ZeroConfig, last.path), before.value)) =>
            LET kind == leafAt(ZeroConfig, last.path).kind
                back == fromString(kind, last.str)
            IN  /\ ~last.panic
                /\ [kind |-> back.kind, val |-> back.val] = asKind(kind, before.value)

====
